---- MODULE Spec2Model ----
(***************************************************************************)
(* MockAPIClient (main.py): the JSON HTTP client wrapper with bounded      *)
(* retry and exponential backoff.  One call of get/post is a coroutine     *)
(* that suspends at `await self._client.request(...)` and at               *)
(* `await asyncio.sleep(backoff)`; the model has one step per resumption.  *)
(* Time is counted in half time-units, so that 0.5 is 1 and 1.0 is 2.      *)
(***************************************************************************)
EXTENDS Integers, Sequences, FiniteSets, TLC

\* ------------------------------------------------------------------ bounds
\* Number of call slots (inbound message handlers that may hold a call).
NumCalls == 2

Calls == 1..NumCalls

\* ------------------------------------------------------- program constants
\* `for attempt in range(3)`
RangeN == 3
\* `if attempt < 2` / `and attempt < 2`
RetryBelow == 2
\* `backoff = 0.5`, in half time-units
InitialBackoff == 1
\* `backoff *= 2`
BackoffFactor == 2

\* ----------------------------------------------------------- the upstream
\* What one HTTP attempt can meet.  A response carries a status and a body
\* text; a connection-level failure carries neither.
ValidJson == {"{\"ok\":true}", "[]"}
BadJson == {"<html>"}

Resp(s, b) == [kind |-> "response", status |-> s, body |-> b]
Fail(k) == [kind |-> k, status |-> 0, body |-> ""]

\* The statuses the wide upstream answers with: those of the mock API (200,
\* 201 on a POST, 404 from its HTTPException, 422 from its validation), a
\* 503, and both ends of 2xx, 4xx and 5xx.
WideOk == {200, 201, 299}
WideErr == {400, 404, 422, 499, 500, 503, 599}
WideUpstream ==
    {Resp(s, b) : s \in WideOk, b \in ValidJson \cup BadJson}
    \cup {Resp(s, "") : s \in WideErr}
    \cup {Fail("ConnectError"), Fail("ReadTimeout")}

\* The upstream of the concurrent runs: one representative of each outcome.
LeanUpstream ==
    {Resp(200, "[]"), Resp(200, "<html>"), Resp(404, ""), Resp(503, ""),
     Fail("ConnectError")}

\* ------------------------------------------------------------- exceptions
\* An exception object: its class, the status of the response it carries
\* (HTTPStatusError only) and the attempt (1-based) that observed it.
NoExc == [cls |-> "None", status |-> 0, at |-> 0]
Exc(c, s, n) == [cls |-> c, status |-> s, at |-> n]

\* A parsed JSON value (what json.loads builds from the text).
NoValue == <<>>
Parsed(text) == <<"json", text>>

\* httpx: Response.is_success
IsSuccess_only200(status) == status = 200
IsSuccess(status) == 200 <= status /\ status < 300

\* Lines 60-62, the body of the try: the value returned, or the exception
\* raised, by attempt number n (1-based) that meets outcome o.
Try(o, n) ==
    IF o.kind # "response"
        THEN [exc |-> Exc(o.kind, 0, n), value |-> NoValue]
    ELSE IF ~IsSuccess(o.status)
        THEN [exc |-> Exc("HTTPStatusError", o.status, n), value |-> NoValue]
    ELSE IF o.body \in ValidJson
        THEN [exc |-> NoExc, value |-> Parsed(o.body)]
    ELSE [exc |-> Exc("JSONDecodeError", 0, n), value |-> NoValue]

\* Which except clause takes an exception: "transport" (line 63), "status"
\* (line 69) or "none" (it leaves _request at once).
Handler_broad(e) ==
    IF e.cls = "HTTPStatusError" THEN "status" ELSE "transport"
Handler(e) ==
    IF e.cls \in {"ConnectError", "ReadTimeout"} THEN "transport"
    ELSE IF e.cls = "HTTPStatusError" THEN "status"
    ELSE "none"

\* `500 <= e.response.status_code < 600`
IsServerError_from400(code) == 400 <= code /\ code < 600
IsServerError(code) == 500 <= code /\ code < 600

\* The conditions of lines 65 and 71: the loop goes on to sleep and retry.
ShouldRetry_statusOnly(e, attempt) ==
    Handler(e) = "status" /\ IsServerError(e.status) /\ attempt < RetryBelow
ShouldRetry(e, attempt) ==
    \/ Handler(e) = "transport" /\ attempt < RetryBelow
    \/ Handler(e) = "status" /\ IsServerError(e.status) /\ attempt < RetryBelow

\* `last_exc = e`
Remember_first(old, e) == IF old = NoExc THEN e ELSE old
Remember(old, e) == e

\* The attempt number the warning carries: `attempt + 1`
WarnNumber_zeroBased(attempt) == attempt
WarnNumber(attempt) == attempt + 1

\* `backoff *= 2`
NextBackoff_flat(b) == b
NextBackoff(b) == b * BackoffFactor

\* The loop variable of the next iteration of `for attempt in range(3)`
NextAttempt_stuck(a) == a
NextAttempt(a) == a + 1

\* `assert last_exc is not None`, then `raise last_exc`
Raise_generic(e) == Exc("RuntimeError", 0, 0)
Raise(e) == IF e = NoExc THEN Exc("AssertionError", 0, 0) ELSE e

\* ------------------------------------------------------------------ state
VARIABLES
    pc,        \* where each call is: idle, request, sleep, returned, raised
    attempt,   \* the loop variable of _request, 0-based
    backoff,   \* the local `backoff`
    last_exc,  \* the local `last_exc`
    waited,    \* time the current asyncio.sleep has been pending
    result,    \* the value returned to the caller
    raised,    \* the exception raised to the caller
    issued,    \* number of HTTP requests the call has sent
    hist,      \* the outcomes the call's attempts met, in order
    sleeps,    \* the durations the call passed to asyncio.sleep, in order
    warnings   \* the attempt numbers of the call's log.warning lines

vars == <<pc, attempt, backoff, last_exc, waited, result, raised,
          issued, hist, sleeps, warnings>>

\* asyncio.sleep(backoff): the duration handed to the current sleep
SleepArg_shared(c) == backoff[1]
SleepArg(c) == backoff[c]

Init ==
    /\ pc = [c \in Calls |-> "idle"]
    /\ attempt = [c \in Calls |-> 0]
    /\ backoff = [c \in Calls |-> 0]
    /\ last_exc = [c \in Calls |-> NoExc]
    /\ waited = [c \in Calls |-> 0]
    /\ result = [c \in Calls |-> NoValue]
    /\ raised = [c \in Calls |-> NoExc]
    /\ issued = [c \in Calls |-> 0]
    /\ hist = [c \in Calls |-> <<>>]
    /\ sleeps = [c \in Calls |-> <<>>]
    /\ warnings = [c \in Calls |-> <<>>]

\* ---------------------------------------------------------------- actions
\* _request up to its first await: the locals are set and attempt 0 is sent.
\* The method, the url and the keywords go to httpx as they came; _request
\* reads none of them, and they are no part of the state.
request(c) ==
    /\ pc[c] = "idle"
    /\ pc' = [pc EXCEPT ![c] = "request"]
    /\ attempt' = [attempt EXCEPT ![c] = 0]
    /\ backoff' = [backoff EXCEPT ![c] = InitialBackoff]
    /\ last_exc' = [last_exc EXCEPT ![c] = NoExc]
    /\ issued' = [issued EXCEPT ![c] = 1]
    /\ UNCHANGED <<waited, result, raised, hist, sleeps, warnings>>

\* request("GET", url, params=params)
get(c) == request(c)
\* request("POST", url, json=payload)
post(c) == request(c)

\* The awaited request completes with outcome o: the rest of the try and the
\* except clauses, up to the return, the raise or the await of the sleep.
Respond(c, o) ==
    /\ pc[c] = "request"
    /\ hist' = [hist EXCEPT ![c] = Append(@, o)]
    /\ LET t == Try(o, attempt[c] + 1)
           e == t.exc
       IN IF e = NoExc
            THEN /\ pc' = [pc EXCEPT ![c] = "returned"]
                 /\ result' = [result EXCEPT ![c] = t.value]
                 /\ UNCHANGED <<last_exc, raised, sleeps, warnings>>
          ELSE IF Handler(e) = "none"
            THEN /\ pc' = [pc EXCEPT ![c] = "raised"]
                 /\ raised' = [raised EXCEPT ![c] = e]
                 /\ UNCHANGED <<last_exc, result, sleeps, warnings>>
          ELSE /\ last_exc' = [last_exc EXCEPT ![c] = Remember(@, e)]
               /\ IF ShouldRetry(e, attempt[c])
                    THEN /\ warnings' = [warnings EXCEPT
                                ![c] = Append(@, WarnNumber(attempt[c]))]
                         /\ pc' = [pc EXCEPT ![c] = "sleep"]
                         /\ sleeps' = [sleeps EXCEPT ![c] = Append(@, SleepArg(c))]
                         /\ UNCHANGED <<result, raised>>
                    ELSE /\ pc' = [pc EXCEPT ![c] = "raised"]
                         /\ raised' = [raised EXCEPT ![c] = Raise(last_exc'[c])]
                         /\ UNCHANGED <<result, sleeps, warnings>>
    /\ waited' = [waited EXCEPT ![c] = 0]
    /\ UNCHANGED <<attempt, backoff, issued>>

\* The sleep a call is in has not yet lasted the duration asked for.
Pending(c) == pc[c] = "sleep" /\ waited[c] < sleeps[c][Len(sleeps[c])]

\* One half time-unit passes for every pending sleep.
Tick ==
    /\ \E c \in Calls : Pending(c)
    /\ waited' = [c \in Calls |-> IF Pending(c) THEN waited[c] + 1 ELSE waited[c]]
    /\ UNCHANGED <<pc, attempt, backoff, last_exc, result, raised,
                   issued, hist, sleeps, warnings>>

\* The sleep is over: `backoff *= 2`, then the next iteration of the loop
\* sends the next attempt, or the loop is exhausted and last_exc is raised.
Wake(c) ==
    /\ pc[c] = "sleep"
    /\ ~Pending(c)
    /\ backoff' = [backoff EXCEPT ![c] = NextBackoff(@)]
    /\ IF NextAttempt(attempt[c]) < RangeN
         THEN /\ attempt' = [attempt EXCEPT ![c] = NextAttempt(@)]
              /\ pc' = [pc EXCEPT ![c] = "request"]
              /\ issued' = [issued EXCEPT ![c] = @ + 1]
              /\ UNCHANGED raised
         ELSE /\ pc' = [pc EXCEPT ![c] = "raised"]
              /\ raised' = [raised EXCEPT ![c] = Raise(last_exc[c])]
              /\ UNCHANGED <<attempt, issued>>
    /\ UNCHANGED <<last_exc, waited, result, hist, sleeps, warnings>>

\* The caller (handle_text) has taken the value or the exception; nothing of
\* the call outlives it.
Finish(c) ==
    /\ pc[c] \in {"returned", "raised"}
    /\ pc' = [pc EXCEPT ![c] = "idle"]
    /\ attempt' = [attempt EXCEPT ![c] = 0]
    /\ backoff' = [backoff EXCEPT ![c] = 0]
    /\ last_exc' = [last_exc EXCEPT ![c] = NoExc]
    /\ waited' = [waited EXCEPT ![c] = 0]
    /\ result' = [result EXCEPT ![c] = NoValue]
    /\ raised' = [raised EXCEPT ![c] = NoExc]
    /\ issued' = [issued EXCEPT ![c] = 0]
    /\ hist' = [hist EXCEPT ![c] = <<>>]
    /\ sleeps' = [sleeps EXCEPT ![c] = <<>>]
    /\ warnings' = [warnings EXCEPT ![c] = <<>>]

\* No other call is under way: the handlers take their turns.
Alone(c) == \A d \in Calls \ {c} : pc[d] = "idle"

\* One handler at a time, against the wide upstream.
Next ==
    \/ \E c \in Calls : Alone(c) /\ get(c)
    \/ \E c \in Calls : Alone(c) /\ post(c)
    \/ \E c \in Calls : \E o \in WideUpstream : Respond(c, o)
    \/ Tick
    \/ \E c \in Calls : Wake(c)
    \/ \E c \in Calls : Finish(c)

Spec == Init /\ [][Next]_vars

\* The event loop resumes a coroutine whose sleep is over, and time passes.
FairSpec == Spec /\ WF_vars(Tick) /\ \A c \in Calls : WF_vars(Wake(c))

\* Simultaneous handlers on the one shared client, against the lean upstream.
ConcNext ==
    \/ \E c \in Calls : get(c)
    \/ \E c \in Calls : post(c)
    \/ \E c \in Calls : \E o \in LeanUpstream : Respond(c, o)
    \/ Tick
    \/ \E c \in Calls : Wake(c)
    \/ \E c \in Calls : Finish(c)

ConcSpec == Init /\ [][ConcNext]_vars

\* ------------------------------------------------- vocabulary of the claims
Done(c) == pc[c] \in {"returned", "raised"}

Is5xx(o) == o.kind = "response" /\ o.status \in 500..599
Is4xx(o) == o.kind = "response" /\ o.status \in 400..499
Is2xx(o) == o.kind = "response" /\ o.status \in 200..299
IsConnFailure(o) == o.kind \in {"ConnectError", "ReadTimeout"}
Transient(o) == IsConnFailure(o) \/ Is5xx(o)
GoodJson(o) == Is2xx(o) /\ o.body \in ValidJson
Undecodable(o) == Is2xx(o) /\ o.body \notin ValidJson

\* The error object an attempt observes: the n-th attempt meeting outcome o.
Observed(o, n) ==
    IF o.kind = "response" THEN Exc("HTTPStatusError", o.status, n)
    ELSE Exc(o.kind, 0, n)

Statuses(h) == [i \in 1..Len(h) |-> h[i].status]

RECURSIVE Sum(_)
Sum(s) == IF s = <<>> THEN 0 ELSE s[1] + Sum(Tail(s))

\* The number of transient failures among the outcomes of h.
TransientCount(h) == Cardinality({i \in 1..Len(h) : Transient(h[i])})

C2_RetryPending ==
    \A c \in Calls : \A n \in 1..2 :
        (Len(hist[c]) >= n /\ Transient(hist[c][n])) =>
            \/ pc[c] = "sleep" /\ issued[c] = n /\ Len(hist[c]) = n
            \/ issued[c] >= n + 1

C2_SecondAttemptSucceeds ==
    \A c \in Calls :
        (Len(hist[c]) = 2 /\ IsConnFailure(hist[c][1]) /\ GoodJson(hist[c][2])) =>
            /\ pc[c] = "returned"
            /\ result[c] = Parsed(hist[c][2].body)
            /\ issued[c] = 2

C2_RetryFollows ==
    /\ [](C2_RetryPending /\ C2_SecondAttemptSucceeds)
    /\ \A c \in Calls : \A n \in 1..2 :
           (Len(hist[c]) = n /\ Transient(hist[c][n])) ~> (issued[c] = n + 1)

\* A call that returned on its 2nd attempt after a connection failure.
C2_Witness ==
    \E c \in Calls :
        /\ pc[c] = "returned" /\ Len(hist[c]) = 2
        /\ hist[c][1].kind = "ConnectError" /\ GoodJson(hist[c][2])

\* ------------------------------------------------------------------ C3
\* C3: an attempt that receives a 4xx status is the call's last: the call
\* raises that attempt's error, sends no further attempt and takes no
\* backoff delay after it, whichever attempt it is; a first response of 404
\* raises after exactly 1 attempt.
C3_ClientErrorNotRetried ==
    \A c \in Calls : \A i \in 1..Len(hist[c]) :
        Is4xx(hist[c][i]) =>
            /\ i = Len(hist[c])
            /\ pc[c] = "raised"
            /\ raised[c] = Exc("HTTPStatusError", hist[c][i].status, i)
            /\ issued[c] = i
            /\ Len(sleeps[c]) = i - 1

\* A call whose first response was 404.
C3_Witness ==
    \E c \in Calls :
        /\ Statuses(hist[c]) = <<404>> /\ pc[c] = "raised" /\ issued[c] = 1
        /\ sleeps[c] = <<>>

\* ------------------------------------------------------------------ C4
\* C4: the delay asked for after a retried 1st attempt is 0.5 (1 half-unit)
\* and after a retried 2nd attempt 1.0 (2 half-units); an attempt after the
\* first is in flight only when the delay before it has fully elapsed; no
\* delay follows the last attempt of a call; 503, 503, 200 returns after
\* exactly 3 attempts and a total delay of 1.5 (3 half-units).
C4_Backoff ==
    \A c \in Calls :
        /\ Len(sleeps[c]) <= 2
        /\ Len(sleeps[c]) >= 1 => sleeps[c][1] = 1
        /\ Len(sleeps[c]) >= 2 => sleeps[c][2] = 2
        /\ (pc[c] = "request" /\ issued[c] >= 2) =>
               /\ Len(sleeps[c]) = issued[c] - 1
               /\ waited[c] >= sleeps[c][issued[c] - 1]
        /\ Done(c) => Len(sleeps[c]) = Len(hist[c]) - 1
        /\ (Statuses(hist[c]) = <<503, 503, 200>> /\ GoodJson(hist[c][3])) =>
               /\ pc[c] = "returned"
               /\ issued[c] = 3
               /\ Sum(sleeps[c]) = 3

\* A call that met 503, 503, 200 and returned.
C4_Witness ==
    \E c \in Calls :
        /\ Statuses(hist[c]) = <<503, 503, 200>> /\ pc[c] = "returned"
        /\ sleeps[c] = <<1, 2>>

C6_FirstSuccessReturned ==
    \A c \in Calls :
        (Len(hist[c]) >= 1 /\ GoodJson(hist[c][1])) =>
            /\ pc[c] = "returned"
            /\ result[c] = Parsed(hist[c][1].body)
            /\ raised[c] = NoExc
            /\ issued[c] = 1 /\ Len(hist[c]) = 1
            /\ sleeps[c] = <<>>

\* A call answered 299 at once.
C6_Witness ==
    \E c \in Calls :
        /\ pc[c] = "returned"
        /\ Statuses(hist[c]) = <<299>>
        /\ result[c] = Parsed("[]")

\* ------------------------------------------------------------------ C7
\* C7: a 2xx response whose body is not valid JSON ends the call: the
\* decode error of that attempt is raised, no further attempt is sent and
\* no backoff delay is taken after it, even with attempts left.
C7_DecodeErrorNotRetried ==
    \A c \in Calls : \A i \in 1..Len(hist[c]) :
        Undecodable(hist[c][i]) =>
            /\ i = Len(hist[c])
            /\ pc[c] = "raised"
            /\ raised[c] = Exc("JSONDecodeError", 0, i)
            /\ issued[c] = i
            /\ Len(sleeps[c]) = i - 1

\* A decode error on the 1st attempt, with two attempts left.
C7_Witness ==
    \E c \in Calls :
        /\ Len(hist[c]) = 1 /\ Undecodable(hist[c][1])
        /\ pc[c] = "raised" /\ issued[c] = 1

\* ------------------------------------------------------------------ C8
\* The kind of a failed call: (a) transient failures to the end of the
\* budget, (b) a non-retryable HTTP error, (c) a decode error.
FailureKind(c) ==
    LET last == hist[c][Len(hist[c])]
    IN IF Transient(last) THEN "exhausted"
       ELSE IF Is4xx(last) THEN "non-retryable"
       ELSE "decode"

\* C8 as claimed: two calls that fail for different kinds never surface the
\* same kind of condition (the class of the exception raised).
C8_KindsDistinctByClass ==
    \A c, d \in Calls :
        (pc[c] = "raised" /\ pc[d] = "raised" /\ FailureKind(c) # FailureKind(d))
            => raised[c].cls # raised[d].cls

\* What the caller can inspect: the class and, with it, the status range of
\* the response an HTTPStatusError carries.
Condition(e) == <<e.cls, IsServerError(e.status)>>

\* C8 as amended: every failed call raises an exception, and two calls that
\* fail for different kinds differ in the exception's class or in the
\* status range it carries.
C8_KindsDistinctByClassAndStatus ==
    \A c, d \in Calls :
        /\ pc[c] = "raised" => raised[c] # NoExc
        /\ (pc[c] = "raised" /\ pc[d] = "raised" /\ FailureKind(c) # FailureKind(d))
               => Condition(raised[c]) # Condition(raised[d])

\* An exhausted 5xx call and a 4xx call, both raised, of the same class.
C8_Witness ==
    \E c, d \in Calls :
        /\ pc[c] = "raised" /\ pc[d] = "raised"
        /\ FailureKind(c) = "exhausted" /\ FailureKind(d) = "non-retryable"
        /\ raised[c].cls = "HTTPStatusError" /\ raised[d].cls = "HTTPStatusError"

\* ------------------------------------------------------------------ C9
\* The retry state of a call.
RetryState(c) == <<attempt[c], backoff[c], last_exc[c]>>

\* C9: with calls interleaved in any order, two calls that met the same
\* outcomes and stand at the same point agree on attempt count, backoff
\* sequence, retry state and outcome, and a step that changes the retry
\* state of one call leaves that of every other call as it was.
C9_SameOutcomesSameState ==
    \A c, d \in Calls :
        (hist[c] = hist[d] /\ pc[c] = pc[d] /\ pc[c] # "idle") =>
            /\ issued[c] = issued[d]
            /\ sleeps[c] = sleeps[d]
            /\ RetryState(c) = RetryState(d)
            /\ result[c] = result[d]
            /\ raised[c] = raised[d]
            /\ warnings[c] = warnings[d]

C9_Independent ==
    /\ []C9_SameOutcomesSameState
    /\ [][\A c, d \in Calls :
            (c # d /\ RetryState(c)' # RetryState(c)) =>
                RetryState(d)' = RetryState(d)]_vars

\* Two calls asleep at once after the same two outcomes.
C9_Witness ==
    \E c, d \in Calls :
        /\ c # d /\ hist[c] = hist[d] /\ Len(hist[c]) = 2
        /\ pc[c] = "sleep" /\ pc[d] = "sleep"
        /\ waited[c] # waited[d]

\* ------------------------------------------------------------------ C10
\* C10 as claimed: every transient failure of a call has its warning.
C10_WarningPerTransientFailure ==
    \A c \in Calls : Len(warnings[c]) = TransientCount(hist[c])

\* C10 as amended: a transient failure on the 1st or 2nd attempt logs one
\* warning carrying that attempt's 1-based number; a transient failure on
\* the 3rd attempt logs none.
C10_WarningPerRetriedFailure ==
    \A c \in Calls :
        LET n == TransientCount(hist[c])
        IN /\ Len(warnings[c]) = IF n < 2 THEN n ELSE 2
           /\ \A i \in 1..Len(warnings[c]) :
                  warnings[c][i] = i /\ Transient(hist[c][i])

\* A call that failed three times and logged two warnings.
C10_Witness ==
    \E c \in Calls :
        /\ pc[c] = "raised" /\ TransientCount(hist[c]) = 3
        /\ warnings[c] = <<1, 2>>

====
